---- MODULE Spec2Model ----
(***************************************************************************)
(* Order lifecycle and inventory consistency of the store application:     *)
(* the session cart (store/views.py), the orders created at checkout, the  *)
(* staff panel view admin_order_detail and the Django admin's              *)
(* PedidoAdmin.save_model, with Pedido.descontar_stock_si_realizado.       *)
(***************************************************************************)
EXTENDS Integers, Sequences, FiniteSets, TLC

\* ------------------------------------------------------------------ bounds
MaxStock == 2
MaxPedidos == 1
MaxLog == 3
MaxLogPedido == 3
MaxLogCiclo == 4
MaxCant == 3

\* ----------------------------------------------------------- catalog data
\* Python's None (a null tracking_number; "no message").
None == "<None>"

\* request.POST.get("estado", pedido.estado): the field is not in the POST.
Ausente == "<ausente>"

\* models.ESTADOS: the choices of Pedido.estado.
ESTADOS == {"pendiente", "realizado", "rechazado"}

\* Product 1 has the variants below; product 2 has none.
Productos == {1, 2}

\* TalleProducto rows: (producto, talle).
TalleProductos == {<<1, "M">>}

\* ColorStock rows in primary-key order: (talle_producto, color).
ColorStocks == <<
    [talle_producto |-> <<1, "M">>, color |-> "Rojo"],
    [talle_producto |-> <<1, "M">>, color |-> "Azul"] >>

Filas == 1..Len(ColorStocks)

\* The values the requests below carry.
Talles == {"M", "XL"}
Colores == {"Rojo", "rojo", "Azul"}
EstadosPost == ESTADOS \cup {Ausente, "otro"}
TrackingsPost == {"", " ", "T1", " T2 "}
Costos == {5}

\* The prices the products are created with (the tests' 10.00 and 5.50, in
\* half units), and the prices the admin sets later.
PrecioInicial(p) == IF p = 1 THEN 20 ELSE 11
Precios == {20, 24}

\* The outcomes of AndreaniClient.calculate_shipping: a cost returned, None
\* returned (a requests.RequestException is logged, nothing is raised), or
\* ShippingError raised (the response carries no cost).
Envios ==
    [tipo : {"cost"}, cost : Costos]
        \cup {[tipo |-> "None", cost |-> 0], [tipo |-> "ShippingError", cost |-> 0]}

\* What the HTTP call of calculate_shipping meets: no connection, a
\* timeout, an error status (raise_for_status), a JSON body without "cost",
\* or a JSON body with a cost.
Respuestas ==
    [tipo : {"cost"}, cost : Costos]
        \cup [tipo : {"ConnectionError", "Timeout", "HTTPError", "sin_cost"}, cost : {0}]

\* The responses on which the lookup has no cost to give.
Fallidas == {r \in Respuestas : r.tipo # "cost"}

\* AndreaniClient.calculate_shipping: the requests.RequestException of a
\* network failure, a timeout or an error status is caught and logged, and
\* the function ends without a return (the raise is commented out); a body
\* without "cost" raises ShippingError, which the except clause lets pass.
calculate_shipping(resp) ==
    IF resp.tipo \in {"ConnectionError", "Timeout", "HTTPError"}
      THEN [tipo |-> "None", cost |-> 0]
    ELSE IF resp.tipo = "sin_cost"
      THEN [tipo |-> "ShippingError", cost |-> 0]
    ELSE [tipo |-> "cost", cost |-> resp.cost]

\* str.lower() on the colours above (color__iexact compares case-folded).
Lower(c) ==
    CASE c = "Rojo" -> "rojo"
      [] c = "Azul" -> "azul"
      [] OTHER -> c

\* str.strip() on the tracking numbers above.
Strip(t) ==
    CASE t = " " -> ""
      [] t = " T2 " -> "T2"
      [] OTHER -> t

VARIABLES
    stock,      \* ColorStock.stock of each row that exists
    cart,       \* request.session['cart']: key -> quantity
    pedidos,    \* the Pedido table, by primary key, with its items and logs
    descuentos, \* per order: calls of descontar_stock_si_realizado so far
    msg,        \* the message the last request queued (django.contrib.messages),
                \* or the CartError a call on the Cart object raised
    reqs,       \* the panel requests in progress: position and local variables
    precios,    \* Producto.precio of each product that exists
    vista,      \* what the last request rendered or the last Cart call returned
    cart_obj    \* the session's Cart object, when one was built: its `cart` attribute

vars == <<stock, cart, pedidos, descuentos, msg, reqs, precios, vista, cart_obj>>

\* Producto.precio
precio(p) == precios[p]

\* Nothing rendered or returned: the request answered with a redirect, the
\* call returned None or raised.
SinVista == [pagina |-> "redirect"]

\* No Cart object has been built on the session.
SinCart == [existe |-> FALSE, cart |-> << >>]

\* ------------------------------------------------------------ stock helper
\* ColorStock.objects.filter(talle_producto=tp, color__iexact=color).first():
\* the lowest-pk matching row of the table `st` (the rows that exist are its
\* domain), 0 when there is none.
PrimerColorStock(st, tp, color) ==
    LET m == {f \in DOMAIN st : /\ ColorStocks[f].talle_producto = tp
                               /\ Lower(ColorStocks[f].color) = Lower(color)}
    IN IF m = {} THEN 0 ELSE CHOOSE f \in m : \A g \in m : f <= g

\* views._variant_stock
_variant_stock(st, pid, talle, color) ==
    IF <<pid, talle>> \notin TalleProductos THEN 0
    ELSE LET cs == PrimerColorStock(st, <<pid, talle>>, color)
         IN IF cs = 0 THEN 0 ELSE st[cs]

\* Mutant of DescontarItem: the new stock is not floored at zero.
DescontarItem_SinPiso(st, it) ==
    IF <<it.producto, it.talle>> \notin TalleProductos THEN st
    ELSE LET cs == PrimerColorStock(st, <<it.producto, it.talle>>, it.color)
         IN IF cs = 0 THEN st ELSE [st EXCEPT ![cs] = st[cs] - it.cantidad]

\* One iteration of the loop of descontar_stock_si_realizado: the stock
\* table after the line `it`.
DescontarItem(st, it) ==
    IF <<it.producto, it.talle>> \notin TalleProductos THEN st
    ELSE LET cs == PrimerColorStock(st, <<it.producto, it.talle>>, it.color)
         IN IF cs = 0 THEN st
            ELSE LET nuevo == st[cs] - it.cantidad
                 IN [st EXCEPT ![cs] = IF nuevo > 0 THEN nuevo ELSE 0]

RECURSIVE DescontarDesde(_, _, _)
DescontarDesde(st, items, i) ==
    IF i > Len(items) THEN st
    ELSE DescontarDesde(DescontarItem(st, items[i]), items, i + 1)

\* Pedido.descontar_stock_si_realizado: every line of the order, in order.
descontar_stock_si_realizado(st, items) == DescontarDesde(st, items, 1)

\* ------------------------------------------------------------------ logs
\* The action texts Pedido.add_log receives, as (kind, before, after).
LogEstado(anterior, nuevo) == <<"Estado cambiado", anterior, nuevo>>
LogTracking(anterior, nuevo) == <<"Tracking actualizado", anterior, nuevo>>
LogStock == <<"Stock descontado por estado 'realizado'", None, None>>

\* Mutant of add_logs: the new entries replace the order's log.
add_logs_Reemplaza(logs, nuevos) == nuevos

\* Pedido.add_log, once per entry of `nuevos`: OrderLog.objects.create adds
\* a row to the order's log.
add_logs(logs, nuevos) == logs \o nuevos

\* ------------------------------------------------------------------ cart
Claves == Productos \X Talles \X Colores

\* The cart keys in a fixed order (the lines of an order follow it).
ClavesOrden ==
    << <<1, "M", "Rojo">>, <<1, "M", "rojo">>, <<1, "M", "Azul">>,
       <<1, "XL", "Rojo">>, <<1, "XL", "rojo">>, <<1, "XL", "Azul">> >>

\* cart.get(key, 0)
EnCarrito(c, key) == IF key \in DOMAIN c THEN c[key] ELSE 0

\* The texts add_to_cart formats, by the numbers they carry:
\* f"Stock máximo alcanzado ({stock}).",
\* f"Se agregaron {agregado} (limitado por stock: {stock})." and
\* f"Se agregaron {agregado} unidad(es) al carrito."
MsgStockMaximo ==
    [st \in 0..(MaxStock + 1) |-> "Stock maximo alcanzado (" \o ToString(st) \o ")"]

MsgLimitado ==
    [agregado \in 0..(MaxStock + 1) |-> [st \in 0..(MaxStock + 1) |->
        "Se agregaron " \o ToString(agregado)
            \o " (limitado por stock: " \o ToString(st) \o ")"]]

MsgAgregado ==
    [agregado \in 0..(MaxStock + 1) |->
        "Se agregaron " \o ToString(agregado) \o " unidad(es)"]

\* Mutant of CantidadInvalida: a quantity of zero is let through.
CantidadInvalida_Cero(quantity) == quantity < 0

\* `if quantity < 1: raise ValueError`
CantidadInvalida(quantity) == quantity < 1

\* Mutant of Tope: the new total is not capped by the stock.
Tope_SinTope(nuevo_total, st) == nuevo_total

\* `if nuevo_total > stock: nuevo_total = stock`
Tope(nuevo_total, st) == IF nuevo_total > st THEN st ELSE nuevo_total

\* Mutant of NadaAgregado: an addition of zero units is stored and reported.
NadaAgregado_Negativo(agregado) == agregado < 0

\* `if agregado <= 0`
NadaAgregado(agregado) == agregado <= 0

\* Mutant of ConClave: the quantity replaces the mapping.
ConClave_Sola(c, key, n) == [k \in {key} |-> n]

\* `cart[key] = n`
ConClave(c, key, n) == [k \in DOMAIN c \cup {key} |-> IF k = key THEN n ELSE c[k]]

\* views.add_to_cart
add_to_cart(pk, talle, color, quantity) ==
    LET key == <<pk, talle, color>>
        en_carrito == EnCarrito(cart, key)
        st == _variant_stock(stock, pk, talle, color)
        nuevo_total == Tope(en_carrito + quantity, st)
        agregado == nuevo_total - en_carrito
    IN /\ UNCHANGED <<stock, pedidos, descuentos>>
       /\ IF CantidadInvalida(quantity)
            THEN /\ msg' = "Cantidad invalida"
                 /\ UNCHANGED cart
          ELSE IF talle = "" \/ color = ""
            THEN /\ msg' = "Debes seleccionar talle y color"
                 /\ UNCHANGED cart
          ELSE IF st <= 0
            THEN /\ msg' = "Sin stock"
                 /\ UNCHANGED cart
          ELSE IF NadaAgregado(agregado)
            THEN /\ msg' = MsgStockMaximo[st]
                 /\ UNCHANGED cart
          ELSE /\ cart' = ConClave(cart, key, nuevo_total)
               /\ msg' = IF agregado < quantity THEN MsgLimitado[agregado][st]
                                                ELSE MsgAgregado[agregado]

\* ---------------------------------------------------------------- checkout
RECURSIVE ItemsDesde(_, _)
\* The `items` list checkout builds from the raw session cart.
ItemsDesde(c, i) ==
    IF i > Len(ClavesOrden) THEN << >>
    ELSE LET key == ClavesOrden[i]
         IN IF key \in DOMAIN c
              THEN << [producto |-> key[1], talle |-> key[2], color |-> key[3],
                       cantidad |-> c[key], precio_unitario |-> precio(key[1])] >>
                   \o ItemsDesde(c, i + 1)
              ELSE ItemsDesde(c, i + 1)

RECURSIVE Subtotal(_)
Subtotal(items) ==
    IF items = << >> THEN 0
    ELSE Head(items).precio_unitario * Head(items).cantidad + Subtotal(Tail(items))

\* request.POST.get('nombre'): the buyer the order forms below name.
Comprador == "Ana"

\* Mutant of NuevoPedido: the order is stored without its lines.
NuevoPedido_SinLineas(items, shipping_cost, estado, tracking) ==
    [estado |-> estado, tracking_number |-> tracking, items |-> << >>,
     shipping_cost |-> shipping_cost, total |-> Subtotal(items) + shipping_cost,
     buyer_name |-> Comprador, logs |-> << >>]

\* A new Pedido row: estado defaults to 'pendiente', tracking_number to NULL.
NuevoPedido(items, shipping_cost, estado, tracking) ==
    [estado |-> estado, tracking_number |-> tracking, items |-> items,
     shipping_cost |-> shipping_cost, total |-> Subtotal(items) + shipping_cost,
     buyer_name |-> Comprador, logs |-> << >>]

\* get_object_or_404(Producto, pk=pid) raises Http404 for a key of the
\* session cart: its product is no longer in the Producto table.
ProductoFaltante(c) == \E k \in DOMAIN c : k[1] \notin DOMAIN precios

\* The response to a request whose view raised Http404.
Http404 == [pagina |-> "404"]

\* Mutant of CostoEnvio: a failed lookup leaves a default cost other than zero.
CostoEnvio_Defecto(envio) == IF envio.tipo = "cost" THEN envio.cost ELSE 5

\* `shipping_cost = sc or Decimal('0.00')`, and `except ShippingError:
\* shipping_cost = Decimal('0.00')`.
CostoEnvio(envio) == IF envio.tipo = "cost" THEN envio.cost ELSE 0

\* views.checkout, POST: `envio` is the outcome of the shipping lookup. No
\* message is queued on this path.
checkout_post(envio) ==
    LET items == ItemsDesde(cart, 1)
        shipping_cost == CostoEnvio(envio)
    IN /\ msg' = None
       /\ UNCHANGED stock
       /\ IF ProductoFaltante(cart)
            THEN UNCHANGED <<cart, pedidos, descuentos>>
            ELSE /\ pedidos' = Append(pedidos,
                                      NuevoPedido(items, shipping_cost, "pendiente", None))
                 /\ descuentos' = Append(descuentos, 0)
                 /\ cart' = << >>

\* What checkout answers to a POST: Http404, or
\* redirect('store:order_detail', pk=pedido.id) with the id of the new row.
checkout_post_respuesta ==
    IF ProductoFaltante(cart) THEN Http404
    ELSE [pagina |-> "redirect", to |-> "store:order_detail", pk |-> Len(pedidos) + 1]

\* The lines checkout shows: each line of `items` with its subtotal.
LineasCheckout(items) ==
    [i \in DOMAIN items |->
        [producto |-> items[i].producto, talle |-> items[i].talle,
         color |-> items[i].color, qty |-> items[i].cantidad,
         subtotal |-> items[i].precio_unitario * items[i].cantidad]]

\* views.checkout, GET: the page with the raw cart's lines and the shipping
\* cost looked up (0 when the lookup returns None or raises ShippingError).
checkout_get(envio) ==
    LET items == ItemsDesde(cart, 1)
        subtotal == Subtotal(items)
        shipping_cost == CostoEnvio(envio)
    IN /\ UNCHANGED <<stock, cart, pedidos, descuentos>>
       /\ IF ProductoFaltante(cart)
            THEN /\ vista' = Http404
                 /\ msg' = None
            ELSE /\ vista' = [pagina |-> "checkout", items |-> LineasCheckout(items),
                              subtotal |-> subtotal, shipping_cost |-> shipping_cost,
                              total |-> subtotal + shipping_cost]
                 /\ msg' = IF envio.tipo = "ShippingError"
                             THEN "No se pudo calcular envio" ELSE None

\* -------------------------------------------------------------- cart page
Min(a, b) == IF a < b THEN a ELSE b

\* Mutant of Reconciliado: entries above the stock keep their quantity.
Reconciliado_SinTope(c, st) ==
    LET quedan == {k \in DOMAIN c : _variant_stock(st, k[1], k[2], k[3]) > 0}
    IN [k \in quedan |-> c[k]]

\* Mutant of Reconciliado: entries without stock are lowered to it rather
\* than deleted.
Reconciliado_SinBorrar(c, st) ==
    [k \in DOMAIN c |-> Min(c[k], _variant_stock(st, k[1], k[2], k[3]))]

\* The session cart after the loop of views.cart: entries without stock are
\* deleted, entries above the stock are lowered to it.
Reconciliado(c, st) ==
    LET quedan == {k \in DOMAIN c : _variant_stock(st, k[1], k[2], k[3]) > 0}
    IN [k \in quedan |-> Min(c[k], _variant_stock(st, k[1], k[2], k[3]))]

RECURSIVE ItemsCarrito(_, _, _)
\* The `items` list views.cart builds.
ItemsCarrito(c, st, i) ==
    IF i > Len(ClavesOrden) THEN << >>
    ELSE LET key == ClavesOrden[i]
             max_stock == _variant_stock(st, key[1], key[2], key[3])
             qty == Min(c[key], max_stock)
         IN IF key \in DOMAIN c /\ max_stock > 0
              THEN << [key |-> key, producto |-> key[1], talle |-> key[2],
                       color |-> key[3], cantidad |-> qty,
                       subtotal |-> precio(key[1]) * qty, max |-> max_stock] >>
                   \o ItemsCarrito(c, st, i + 1)
              ELSE ItemsCarrito(c, st, i + 1)

\* Mutant of SumaSubtotales: the total is assigned, not accumulated.
SumaSubtotales_Ultimo(items) ==
    IF items = << >> THEN 0 ELSE items[Len(items)].subtotal

RECURSIVE SumaSubtotales(_)
\* total += subtotal, over the items built.
SumaSubtotales(items) ==
    IF items = << >> THEN 0 ELSE Head(items).subtotal + SumaSubtotales(Tail(items))

RECURSIVE SumaCantidades(_)
\* sum(i['cantidad'] for i in items)
SumaCantidades(items) ==
    IF items = << >> THEN 0 ELSE Head(items).cantidad + SumaCantidades(Tail(items))

\* views.cart: the cart page. session_changed is the view's local flag when
\* it returns; the session is rewritten when it is set. When a product of
\* the cart is gone the view raises Http404 in its loop, before
\* `request.session['cart'] = raw`: the session is not marked modified and
\* keeps what it stored.
cart_view ==
    LET raw == Reconciliado(cart, stock)
        items == ItemsCarrito(cart, stock, 1)
        session_changed == \E k \in DOMAIN cart :
                              \/ _variant_stock(stock, k[1], k[2], k[3]) <= 0
                              \/ cart[k] > _variant_stock(stock, k[1], k[2], k[3])
    IN /\ msg' = None
       /\ UNCHANGED <<stock, pedidos, descuentos>>
       /\ IF ProductoFaltante(cart)
            THEN /\ vista' = Http404
                 /\ UNCHANGED cart
            ELSE /\ cart' = IF session_changed THEN raw ELSE cart
                 /\ vista' = [pagina |-> "cart", items |-> items,
                              total |-> SumaSubtotales(items),
                              cart_count |-> SumaCantidades(items),
                              session_changed |-> session_changed]

\* Mutant of SinClave: the mapping is emptied.
SinClave_Todo(c, key) == << >>

\* `del cart[key]`
SinClave(c, key) == [k \in DOMAIN c \ {key} |-> c[k]]

\* views.remove_from_cart
remove_from_cart(key) ==
    /\ UNCHANGED <<stock, pedidos, descuentos>>
    /\ IF key \in DOMAIN cart
         THEN /\ cart' = SinClave(cart, key)
              /\ msg' = "Producto eliminado del carrito"
         ELSE /\ UNCHANGED cart
              /\ msg' = "El producto no estaba en el carrito"

\* views.increment_cart_item
increment_cart_item(key) ==
    /\ UNCHANGED <<stock, pedidos, descuentos>>
    /\ IF key \in DOMAIN cart
         THEN IF cart[key] >= _variant_stock(stock, key[1], key[2], key[3])
                THEN /\ UNCHANGED cart
                     /\ msg' = "No hay mas stock"
                ELSE /\ cart' = [cart EXCEPT ![key] = @ + 1]
                     /\ msg' = "Se incremento la cantidad en 1"
         ELSE /\ UNCHANGED cart
              /\ msg' = "El producto no existe en el carrito"

\* views.decrement_cart_item
decrement_cart_item(key) ==
    /\ UNCHANGED <<stock, pedidos, descuentos>>
    /\ IF key \in DOMAIN cart
         THEN IF cart[key] > 1
                THEN /\ cart' = [cart EXCEPT ![key] = @ - 1]
                     /\ msg' = "Se decremento la cantidad en 1"
                ELSE /\ cart' = SinClave(cart, key)
                     /\ msg' = "Producto eliminado del carrito"
         ELSE /\ UNCHANGED cart
              /\ msg' = "El producto no existe en el carrito"

\* ------------------------------------------------- the Cart service class
\* The product ids the calls below carry: the products and an unknown id.
IdsProducto == Productos \cup {999}

\* str(product_id), the key of a product in the Cart object's mapping,
\* written as a one-field key.
prod_key(product_id) == <<product_id>>

\* The keys of the Cart object's mapping in a fixed order.
ClavesCart == << <<1>>, <<2>> >>

\* Cart.__init__: self.cart is the session's 'cart' mapping.
Cart_init ==
    /\ cart_obj' = [existe |-> TRUE, cart |-> cart]
    /\ vista' = SinVista
    /\ UNCHANGED <<stock, cart, pedidos, descuentos, msg>>

\* Cart._save: session['cart'] = self.cart
Cart_save(self_cart) == cart' = self_cart

\* Cart.add
Cart_add(product_id, quantity) ==
    LET key == prod_key(product_id)
        original_qty == EnCarrito(cart_obj.cart, key)
        nuevo == ConClave(cart_obj.cart, key, original_qty + quantity)
    IN /\ vista' = SinVista
       /\ UNCHANGED <<stock, pedidos, descuentos>>
       /\ IF quantity <= 0
            THEN /\ msg' = "CartError: Quantity must be a positive integer"
                 /\ UNCHANGED <<cart, cart_obj>>
          ELSE IF product_id \notin DOMAIN precios
            THEN /\ msg' = "CartError: Product does not exist"
                 /\ UNCHANGED <<cart, cart_obj>>
          ELSE /\ cart_obj' = [cart_obj EXCEPT !.cart = nuevo]
               /\ Cart_save(nuevo)
               /\ msg' = None

\* Cart.remove
Cart_remove(product_id) ==
    LET key == prod_key(product_id)
        nuevo == SinClave(cart_obj.cart, key)
    IN /\ vista' = SinVista
       /\ UNCHANGED <<stock, pedidos, descuentos>>
       /\ IF key \notin DOMAIN cart_obj.cart
            THEN /\ msg' = "CartError: Product not in cart"
                 /\ UNCHANGED <<cart, cart_obj>>
            ELSE /\ cart_obj' = [cart_obj EXCEPT !.cart = nuevo]
                 /\ Cart_save(nuevo)
                 /\ msg' = None

\* Cart.clear: the session gets a new empty mapping; self.cart is not
\* assigned.
Cart_clear ==
    /\ cart' = << >>
    /\ vista' = SinVista
    /\ msg' = None
    /\ UNCHANGED <<stock, pedidos, descuentos, cart_obj>>

RECURSIVE GetItemsDesde(_, _)
GetItemsDesde(self_cart, i) ==
    IF i > Len(ClavesCart) THEN << >>
    ELSE LET key == ClavesCart[i]
         IN IF key \in DOMAIN self_cart /\ key[1] \in DOMAIN precios
              THEN << [product |-> key[1], quantity |-> self_cart[key],
                       price |-> precio(key[1]),
                       subtotal |-> precio(key[1]) * self_cart[key]] >>
                   \o GetItemsDesde(self_cart, i + 1)
              ELSE GetItemsDesde(self_cart, i + 1)

\* The list Cart.get_items returns for the mapping self.cart.
GetItems(self_cart) == GetItemsDesde(self_cart, 1)

\* Cart.get_items
Cart_get_items ==
    /\ vista' = [pagina |-> "get_items", items |-> GetItems(cart_obj.cart)]
    /\ msg' = None
    /\ UNCHANGED <<stock, cart, pedidos, descuentos, cart_obj>>

\* Cart.get_total
Cart_get_total ==
    /\ vista' = [pagina |-> "get_total",
                 total |-> SumaSubtotales(GetItems(cart_obj.cart))]
    /\ msg' = None
    /\ UNCHANGED <<stock, cart, pedidos, descuentos, cart_obj>>

\* A call of AndreaniClient().calculate_shipping on its own: what the HTTP
\* call met and what the caller got.
llamar_calculate_shipping(resp) ==
    /\ vista' = [pagina |-> "calculate_shipping", respuesta |-> resp,
                 resultado |-> calculate_shipping(resp)]
    /\ UNCHANGED <<stock, cart, pedidos, descuentos, msg>>

\* ---------------------------------------------------- catalog, in the admin
\* ColorInline of the product admin: the stock of a ColorStock row is set.
admin_set_stock(f, n) ==
    /\ stock' = [stock EXCEPT ![f] = n]
    /\ UNCHANGED <<cart, pedidos, descuentos, msg>>

\* ColorInline of TalleProductoAdmin, with the row's delete box ticked: the
\* ColorStock row is deleted.
admin_delete_colorstock(f) ==
    /\ f \in DOMAIN stock
    /\ stock' = [g \in DOMAIN stock \ {f} |-> stock[g]]
    /\ UNCHANGED <<cart, pedidos, descuentos, msg>>

\* ProductoAdmin, delete: refused while an order line references the product
\* (ItemPedido.producto is PROTECT); its sizes and their colour rows go with
\* it (CASCADE). The sessions' carts are not touched.
admin_delete_producto(p) ==
    /\ p \in DOMAIN precios
    /\ \A pk \in DOMAIN pedidos : \A i \in DOMAIN pedidos[pk].items :
          pedidos[pk].items[i].producto # p
    /\ precios' = [q \in DOMAIN precios \ {p} |-> precios[q]]
    /\ stock' = [g \in {f \in DOMAIN stock : ColorStocks[f].talle_producto[1] # p}
                    |-> stock[g]]
    /\ UNCHANGED <<cart, pedidos, descuentos, msg>>

\* ProductoAdmin: the price of a product is changed.
admin_set_precio(p, v) ==
    /\ precios' = [precios EXCEPT ![p] = v]
    /\ UNCHANGED <<stock, cart, pedidos, descuentos, msg>>

\* The number of status-change and tracking-change OrderLog rows, over all
\* orders (the updates below stop once MaxLog of them exist).
Cambios(logs) == Cardinality({i \in DOMAIN logs : logs[i] # LogStock})

RECURSIVE TotalLogs(_)
TotalLogs(ps) == IF ps = << >> THEN 0 ELSE Cambios(Head(ps).logs) + TotalLogs(Tail(ps))

\* ------------------------------------------------------------ staff panel
\* Mutant of NuevoEstado: a fulfilled or rejected order keeps its status.
NuevoEstado_Terminal(estado_actual, estado_post) ==
    IF estado_post = Ausente \/ estado_actual \in {"realizado", "rechazado"}
      THEN estado_actual ELSE estado_post

\* request.POST.get("estado", pedido.estado)
NuevoEstado(estado_actual, estado_post) ==
    IF estado_post = Ausente THEN estado_actual ELSE estado_post

\* Mutant of FaltaTracking: only a null tracking number is refused.
FaltaTracking_SoloNone(estado, tracking) == estado = "realizado" /\ tracking = None

\* Mutant of FaltaTracking: the check is made on the wrong status.
FaltaTracking_OtroEstado(estado, tracking) ==
    estado = "pendiente" /\ tracking \in {"", None}

\* The validation of admin_order_detail and of PedidoForm.clean: marking
\* an order 'realizado' needs a tracking number.
FaltaTracking(estado, tracking) == estado = "realizado" /\ tracking \in {"", None}

\* Mutant of PasaARealizado: the previous status is not looked at.
PasaARealizado_SinAnterior(estado_anterior, estado) == estado = "realizado"

\* "Si pasa a 'realizado' (y antes no lo estaba), descuenta stock".
PasaARealizado(estado_anterior, estado) ==
    estado_anterior # "realizado" /\ estado = "realizado"

\* Mutant of LogsPanel: the stock entry is not written.
LogsPanel_SinStock(estado_anterior, tracking_anterior, estado, tracking) ==
    (IF estado_anterior # estado THEN << LogEstado(estado_anterior, estado) >> ELSE << >>)
    \o (IF tracking_anterior # tracking
          THEN << LogTracking(tracking_anterior, tracking) >> ELSE << >>)

\* The entries admin_order_detail appends, in its order.
LogsPanel(estado_anterior, tracking_anterior, estado, tracking) ==
    (IF estado_anterior # estado THEN << LogEstado(estado_anterior, estado) >> ELSE << >>)
    \o (IF tracking_anterior # tracking
          THEN << LogTracking(tracking_anterior, tracking) >> ELSE << >>)
    \o (IF PasaARealizado(estado_anterior, estado) THEN << LogStock >> ELSE << >>)

\* Mutant of Guardar: the save also drops the order's lines and zeroes its
\* amounts.
Guardar_Todo(pedido, estado, tracking) ==
    [pedido EXCEPT !.estado = estado, !.tracking_number = tracking,
                   !.items = << >>, !.total = 0, !.shipping_cost = 0]

\* pedido.estado = ...; pedido.tracking_number = ...;
\* pedido.save(update_fields=["estado", "tracking_number"])
Guardar(pedido, estado, tracking) ==
    [pedido EXCEPT !.estado = estado, !.tracking_number = tracking]

\* views.admin_order_detail, POST.
admin_order_detail(pk, estado_post, tracking_post) ==
    LET pedido == pedidos[pk]
        nuevo_estado == NuevoEstado(pedido.estado, estado_post)
        nuevo_tracking == Strip(tracking_post)
        estado_anterior == pedido.estado
        tracking_anterior == pedido.tracking_number
        tracking == IF nuevo_tracking # "" THEN nuevo_tracking ELSE None
    IN /\ UNCHANGED cart
       /\ IF FaltaTracking(nuevo_estado, nuevo_tracking)
            THEN /\ msg' = "Falta tracking"
                 /\ UNCHANGED <<pedidos, stock, descuentos>>
            ELSE /\ pedidos' = [pedidos EXCEPT ![pk] =
                        [Guardar(pedido, nuevo_estado, tracking) EXCEPT
                            !.logs = add_logs(@, LogsPanel(estado_anterior,
                                                tracking_anterior, nuevo_estado, tracking))]]
                 /\ IF PasaARealizado(estado_anterior, nuevo_estado)
                      THEN /\ stock' = descontar_stock_si_realizado(stock, pedido.items)
                           /\ descuentos' = [descuentos EXCEPT ![pk] = @ + 1]
                      ELSE UNCHANGED <<stock, descuentos>>
                 /\ msg' = "Pedido actualizado"

\* ---------------------------------------------------------- Django admin
\* The tracking_number form field: stripped, empty becomes None.
CampoTracking(t) == IF Strip(t) = "" THEN None ELSE Strip(t)

\* PedidoForm is valid: estado is one of the choices and clean() passes.
FormValido(estado, tracking) ==
    estado \in ESTADOS /\ ~FaltaTracking(estado, tracking)

\* Mutant of LogsAdmin: the tracking entry is written on every change.
LogsAdmin_SiempreTracking(change, estado_anterior, tracking_anterior, estado, tracking) ==
    (IF change /\ estado_anterior # estado
       THEN << LogEstado(estado_anterior, estado) >> ELSE << >>)
    \o (IF (~change /\ estado = "realizado")
            \/ (change /\ estado_anterior # "realizado" /\ estado = "realizado")
          THEN << LogStock >> ELSE << >>)
    \o (IF change THEN << LogTracking(tracking_anterior, tracking) >> ELSE << >>)

\* The entries PedidoAdmin.save_model appends, in its order.
LogsAdmin(change, estado_anterior, tracking_anterior, estado, tracking) ==
    (IF change /\ estado_anterior # estado
       THEN << LogEstado(estado_anterior, estado) >> ELSE << >>)
    \o (IF (~change /\ estado = "realizado")
            \/ (change /\ PasaARealizado(estado_anterior, estado))
          THEN << LogStock >> ELSE << >>)
    \o (IF change /\ tracking_anterior # tracking
          THEN << LogTracking(tracking_anterior, tracking) >> ELSE << >>)

\* PedidoAdmin.save_model with change=True (the change form of an order).
save_model_change(pk, estado_post, tracking_post) ==
    LET prev == pedidos[pk]
        estado == estado_post
        tracking == CampoTracking(tracking_post)
    IN /\ UNCHANGED cart
       /\ IF ~FormValido(estado, tracking)
            THEN /\ msg' = "Formulario invalido"
                 /\ UNCHANGED <<pedidos, stock, descuentos>>
            ELSE /\ pedidos' = [pedidos EXCEPT ![pk] =
                        [prev EXCEPT
                            !.estado = estado,
                            !.tracking_number = tracking,
                            !.logs = add_logs(@, LogsAdmin(TRUE, prev.estado,
                                                prev.tracking_number, estado, tracking))]]
                 /\ IF PasaARealizado(prev.estado, estado)
                      THEN /\ stock' = descontar_stock_si_realizado(stock, prev.items)
                           /\ descuentos' = [descuentos EXCEPT ![pk] = @ + 1]
                      ELSE UNCHANGED <<stock, descuentos>>
                 /\ msg' = "Pedido guardado"

\* PedidoAdmin.save_model with change=False (the add form): the new order
\* has no lines when save_model runs.
save_model_add(estado_post, tracking_post) ==
    LET estado == estado_post
        tracking == CampoTracking(tracking_post)
        nuevo == NuevoPedido(<< >>, 0, estado, tracking)
    IN /\ UNCHANGED cart
       /\ IF ~FormValido(estado, tracking)
            THEN /\ msg' = "Formulario invalido"
                 /\ UNCHANGED <<pedidos, stock, descuentos>>
            ELSE /\ pedidos' = Append(pedidos,
                        [nuevo EXCEPT
                            !.logs = add_logs(@, LogsAdmin(FALSE, None, None, estado, tracking))])
                 /\ IF estado = "realizado"
                      THEN /\ stock' = descontar_stock_si_realizado(stock, nuevo.items)
                           /\ descuentos' = Append(descuentos, 1)
                      ELSE /\ UNCHANGED stock
                           /\ descuentos' = Append(descuentos, 0)
                 /\ msg' = "Pedido guardado"

\* ------------------------------------------- the panel request, by steps
\* admin_order_detail as the database sees it: one step per query, with the
\* local computation that precedes it. The connection is in autocommit mode
\* (settings.DATABASES sets no ATOMIC_REQUESTS and the view opens no
\* transaction), so each write is committed as it is made.
Reqs == {"a", "b"}

ReqLibre ==
    [pc |-> "libre", pk |-> 0, nuevo_estado |-> None, nuevo_tracking |-> None,
     estado_anterior |-> None, tracking_anterior |-> None, i |-> 0, nuevo |-> 0]

\* get_object_or_404(Pedido, pk=pk), then the validation on the POST data.
ReqGet(r, pk, estado_post, tracking_post) ==
    LET pedido == pedidos[pk]
        nuevo_estado == NuevoEstado(pedido.estado, estado_post)
        nuevo_tracking == Strip(tracking_post)
    IN /\ reqs[r].pc = "libre"
       /\ UNCHANGED <<stock, cart, pedidos, descuentos>>
       /\ IF FaltaTracking(nuevo_estado, nuevo_tracking)
            THEN /\ msg' = "Falta tracking"
                 /\ reqs' = [reqs EXCEPT ![r] = [ReqLibre EXCEPT !.pc = "fin", !.pk = pk]]
            ELSE /\ UNCHANGED msg
                 /\ reqs' = [reqs EXCEPT ![r] =
                        [ReqLibre EXCEPT
                            !.pc = "leido", !.pk = pk,
                            !.nuevo_estado = nuevo_estado,
                            !.nuevo_tracking = IF nuevo_tracking # "" THEN nuevo_tracking
                                                                      ELSE None,
                            !.estado_anterior = pedido.estado,
                            !.tracking_anterior = pedido.tracking_number]]

\* pedido.save(update_fields=["estado", "tracking_number"])
ReqSave(r) ==
    LET q == reqs[r]
    IN /\ q.pc = "leido"
       /\ pedidos' = [pedidos EXCEPT ![q.pk].estado = q.nuevo_estado,
                                     ![q.pk].tracking_number = q.nuevo_tracking]
       /\ reqs' = [reqs EXCEPT ![r].pc = "guardado"]
       /\ UNCHANGED <<stock, cart, descuentos, msg>>

\* if estado_anterior != pedido.estado: pedido.add_log("Estado cambiado ...")
ReqLogEstado(r) ==
    LET q == reqs[r]
    IN /\ q.pc = "guardado"
       /\ pedidos' = IF q.estado_anterior # q.nuevo_estado
                       THEN [pedidos EXCEPT ![q.pk].logs =
                               Append(@, LogEstado(q.estado_anterior, q.nuevo_estado))]
                       ELSE pedidos
       /\ reqs' = [reqs EXCEPT ![r].pc = "log_tracking"]
       /\ UNCHANGED <<stock, cart, descuentos, msg>>

\* if tracking_anterior != pedido.tracking_number: pedido.add_log("Tracking ...")
\* and the test that opens the stock decrement.
ReqLogTracking(r) ==
    LET q == reqs[r]
        pasa == PasaARealizado(q.estado_anterior, q.nuevo_estado)
    IN /\ q.pc = "log_tracking"
       /\ pedidos' = IF q.tracking_anterior # q.nuevo_tracking
                       THEN [pedidos EXCEPT ![q.pk].logs =
                               Append(@, LogTracking(q.tracking_anterior, q.nuevo_tracking))]
                       ELSE pedidos
       /\ reqs' = [reqs EXCEPT ![r].pc = IF pasa THEN "descontar" ELSE "mensaje",
                               ![r].i = 1]
       /\ descuentos' = IF pasa THEN [descuentos EXCEPT ![q.pk] = @ + 1] ELSE descuentos
       /\ UNCHANGED <<stock, cart, msg>>

\* One line of descontar_stock_si_realizado: the two reads (TalleProducto,
\* ColorStock) and the new stock computed from the value read.
ReqLeerStock(r) ==
    LET q == reqs[r]
        items == pedidos[q.pk].items
    IN /\ q.pc = "descontar"
       /\ q.i <= Len(items)
       /\ LET it == items[q.i]
              cs == IF <<it.producto, it.talle>> \in TalleProductos
                      THEN PrimerColorStock(stock, <<it.producto, it.talle>>, it.color) ELSE 0
              nuevo == IF cs = 0 THEN 0 ELSE stock[cs] - it.cantidad
          IN reqs' = [reqs EXCEPT
                        ![r].pc = IF cs = 0 THEN "descontar" ELSE "escribir",
                        ![r].i = IF cs = 0 THEN q.i + 1 ELSE q.i,
                        ![r].nuevo = IF nuevo > 0 THEN nuevo ELSE 0]
       /\ UNCHANGED <<stock, cart, pedidos, descuentos, msg>>

\* cs.save(update_fields=['stock'])
ReqEscribirStock(r) ==
    LET q == reqs[r]
        it == pedidos[q.pk].items[q.i]
        cs == PrimerColorStock(stock, <<it.producto, it.talle>>, it.color)
    IN /\ q.pc = "escribir"
       /\ stock' = [stock EXCEPT ![cs] = q.nuevo]
       /\ reqs' = [reqs EXCEPT ![r].pc = "descontar", ![r].i = q.i + 1]
       /\ UNCHANGED <<cart, pedidos, descuentos, msg>>

\* pedido.add_log("Stock descontado por estado 'realizado'"), after the loop.
ReqLogStock(r) ==
    LET q == reqs[r]
    IN /\ q.pc = "descontar"
       /\ q.i > Len(pedidos[q.pk].items)
       /\ pedidos' = [pedidos EXCEPT ![q.pk].logs = Append(@, LogStock)]
       /\ reqs' = [reqs EXCEPT ![r].pc = "mensaje"]
       /\ UNCHANGED <<stock, cart, descuentos, msg>>

\* messages.success(request, "Pedido actualizado correctamente.")
ReqMensaje(r) ==
    /\ reqs[r].pc = "mensaje"
    /\ msg' = "Pedido actualizado"
    /\ reqs' = [reqs EXCEPT ![r].pc = "fin"]
    /\ UNCHANGED <<stock, cart, pedidos, descuentos>>

\* The request ends in an exception between two queries (a database error,
\* the worker killed): what it has written stays written.
ReqFalla(r) ==
    /\ reqs[r].pc \in {"guardado", "log_tracking", "descontar", "escribir"}
    /\ reqs' = [reqs EXCEPT ![r].pc = "fallo"]
    /\ UNCHANGED <<stock, cart, pedidos, descuentos, msg>>

\* ------------------------------------------------------- the specification
Init ==
    /\ precios = [p \in Productos |-> PrecioInicial(p)]
    /\ vista = SinVista
    /\ cart_obj = SinCart
    /\ stock = [f \in Filas |-> MaxStock]
    /\ cart = << >>
    /\ pedidos = << >>
    /\ descuentos = << >>
    /\ msg = None
    /\ reqs = [r \in Reqs |-> ReqLibre]

\* Cart requests are explored while an order can still be created.
AddToCart ==
    /\ Len(pedidos) < MaxPedidos
    /\ UNCHANGED <<reqs, precios, vista, cart_obj>>
    /\ \E pk \in Productos, talle \in Talles, color \in Colores, quantity \in 0..MaxStock :
          add_to_cart(pk, talle, color, quantity)

Checkout ==
    /\ Len(pedidos) < MaxPedidos
    /\ UNCHANGED <<reqs, precios, vista, cart_obj>>
    /\ \E resp \in Respuestas : checkout_post(calculate_shipping(resp))

PanelPost ==
    /\ TotalLogs(pedidos) < MaxLog
    /\ UNCHANGED <<reqs, precios, vista, cart_obj>>
    /\ \E pk \in DOMAIN pedidos, e \in EstadosPost, t \in TrackingsPost :
          admin_order_detail(pk, e, t)

AdminChange ==
    /\ TotalLogs(pedidos) < MaxLog
    /\ UNCHANGED <<reqs, precios, vista, cart_obj>>
    /\ \E pk \in DOMAIN pedidos, e \in EstadosPost \ {Ausente}, t \in TrackingsPost :
          save_model_change(pk, e, t)

AdminAdd ==
    /\ Len(pedidos) < MaxPedidos
    /\ UNCHANGED <<reqs, precios, vista, cart_obj>>
    /\ \E e \in EstadosPost \ {Ausente}, t \in TrackingsPost :
          save_model_add(e, t)

Next == AddToCart \/ Checkout \/ PanelPost \/ AdminChange \/ AdminAdd

Spec == Init /\ [][Next]_vars

\* ------------------------------------------------- the updates of one order
\* The carts add_to_cart builds from the initial stock.
Carritos ==
    UNION {[K -> 1..MaxStock] :
              K \in SUBSET {k \in Claves : <<k[1], k[2]>> \in TalleProductos}} \ {<< >>}

\* The state right after the checkout of a non-empty cart.
InitPedido ==
    /\ precios = [p \in Productos |-> PrecioInicial(p)]
    /\ vista = SinVista
    /\ cart_obj = SinCart
    /\ stock = [f \in Filas |-> MaxStock]
    /\ cart = << >>
    /\ \E c \in Carritos :
          pedidos = << NuevoPedido(ItemsDesde(c, 1), 0, "pendiente", None) >>
    /\ descuentos = << 0 >>
    /\ msg = None
    /\ reqs = [r \in Reqs |-> ReqLibre]

PanelPostPedido ==
    /\ TotalLogs(pedidos) < MaxLogPedido
    /\ UNCHANGED <<reqs, precios, vista, cart_obj>>
    /\ \E pk \in DOMAIN pedidos, e \in EstadosPost, t \in TrackingsPost :
          admin_order_detail(pk, e, t)

AdminChangePedido ==
    /\ TotalLogs(pedidos) < MaxLogPedido
    /\ UNCHANGED <<reqs, precios, vista, cart_obj>>
    /\ \E pk \in DOMAIN pedidos, e \in EstadosPost \ {Ausente}, t \in TrackingsPost :
          save_model_change(pk, e, t)

NextPedido == PanelPostPedido \/ AdminChangePedido

SpecPedido == InitPedido /\ [][NextPedido]_vars

\* ------------------------------------------- one order, longer histories
PanelPostCiclo ==
    /\ TotalLogs(pedidos) < MaxLogCiclo
    /\ UNCHANGED <<reqs, precios, vista, cart_obj>>
    /\ \E pk \in DOMAIN pedidos, e \in EstadosPost, t \in TrackingsPost :
          admin_order_detail(pk, e, t)

AdminChangeCiclo ==
    /\ TotalLogs(pedidos) < MaxLogCiclo
    /\ UNCHANGED <<reqs, precios, vista, cart_obj>>
    /\ \E pk \in DOMAIN pedidos, e \in EstadosPost \ {Ausente}, t \in TrackingsPost :
          save_model_change(pk, e, t)

NextCiclo == PanelPostCiclo \/ AdminChangeCiclo

SpecCiclo == InitPedido /\ [][NextCiclo]_vars

\* ------------------------------------- an order whose variant is deleted
\* The staff updates an order while colour rows of its product are deleted
\* in the admin.
AdminDeleteColor ==
    /\ UNCHANGED <<reqs, precios, vista, cart_obj>>
    /\ \E f \in Filas : admin_delete_colorstock(f)

NextVariante == PanelPostPedido \/ AdminChangePedido \/ AdminDeleteColor

SpecVariante == InitPedido /\ [][NextVariante]_vars

\* ------------------------------------------------ two orders, one variant
\* The carts of one entry on the variant (1, M, Rojo), in either spelling of
\* its colour.
CarritosDos ==
    {c \in Carritos : \E k \in {<<1, "M", "Rojo">>, <<1, "M", "rojo">>} : DOMAIN c = {k}}

\* Two sessions have checked out such a cart: checkout does not touch the
\* stock, so both orders were taken against the full stock.
InitDos ==
    /\ precios = [p \in Productos |-> PrecioInicial(p)]
    /\ vista = SinVista
    /\ cart_obj = SinCart
    /\ stock = [f \in Filas |-> MaxStock]
    /\ cart = << >>
    /\ \E c1 \in CarritosDos, c2 \in CarritosDos :
          pedidos = << NuevoPedido(ItemsDesde(c1, 1), 0, "pendiente", None),
                       NuevoPedido(ItemsDesde(c2, 1), 0, "pendiente", None) >>
    /\ descuentos = << 0, 0 >>
    /\ msg = None
    /\ reqs = [r \in Reqs |-> ReqLibre]

\* The POST data of the requests below and of the two requests by steps:
\* fulfilment requests, with or without a tracking number, and requests
\* that put the order back to pending.
EstadosReq == {"realizado", "pendiente"}
TrackingsReq == {"", "T1", " T2 "}

PanelPostDos ==
    /\ TotalLogs(pedidos) < MaxLogCiclo
    /\ UNCHANGED <<reqs, precios, vista, cart_obj>>
    /\ \E pk \in DOMAIN pedidos, e \in EstadosReq, t \in TrackingsReq :
          admin_order_detail(pk, e, t)

AdminChangeDos ==
    /\ TotalLogs(pedidos) < MaxLogCiclo
    /\ UNCHANGED <<reqs, precios, vista, cart_obj>>
    /\ \E pk \in DOMAIN pedidos, e \in EstadosReq, t \in TrackingsReq :
          save_model_change(pk, e, t)

NextDos == PanelPostDos \/ AdminChangeDos

SpecDos == InitDos /\ [][NextDos]_vars

\* ------------------------------------------ two panel requests, by steps
PanelGet ==
    /\ UNCHANGED <<precios, vista, cart_obj>>
    /\ \E r \in Reqs, pk \in DOMAIN pedidos, e \in EstadosReq, t \in TrackingsReq :
          ReqGet(r, pk, e, t)

PanelSave == UNCHANGED <<precios, vista, cart_obj>> /\ \E r \in Reqs : ReqSave(r)
PanelLogEstado == UNCHANGED <<precios, vista, cart_obj>> /\ \E r \in Reqs : ReqLogEstado(r)
PanelLogTracking == UNCHANGED <<precios, vista, cart_obj>> /\ \E r \in Reqs : ReqLogTracking(r)
PanelLeerStock == UNCHANGED <<precios, vista, cart_obj>> /\ \E r \in Reqs : ReqLeerStock(r)
PanelEscribirStock == UNCHANGED <<precios, vista, cart_obj>> /\ \E r \in Reqs : ReqEscribirStock(r)
PanelLogStock == UNCHANGED <<precios, vista, cart_obj>> /\ \E r \in Reqs : ReqLogStock(r)
PanelMensaje == UNCHANGED <<precios, vista, cart_obj>> /\ \E r \in Reqs : ReqMensaje(r)
PanelFalla == UNCHANGED <<precios, vista, cart_obj>> /\ \E r \in Reqs : ReqFalla(r)

NextReq ==
    \/ PanelGet \/ PanelSave \/ PanelLogEstado \/ PanelLogTracking
    \/ PanelLeerStock \/ PanelEscribirStock \/ PanelLogStock \/ PanelMensaje
    \/ PanelFalla

SpecReq == InitPedido /\ [][NextReq]_vars

\* --------------------------- two orders, the panel requests by steps
\* The two requests of SpecReq with two pending orders on one variant: each
\* request takes either order, and its queries interleave with those of the
\* other one.
SpecDosReq == InitDos /\ [][NextReq]_vars

\* ------------------------------------------------- one session's cart
\* The cart keys the requests of the session name: the two spellings of a
\* colour of one variant, its other colour, a size the product does not
\* have and a product without variants.
ClavesPost ==
    { <<1, "M", "Rojo">>, <<1, "M", "rojo">>, <<1, "M", "Azul">>,
      <<1, "XL", "Rojo">>, <<2, "M", "Rojo">> }

\* The POST data of add_to_cart: a key, or a form without talle or colour,
\* and a quantity.
FormulariosAdd == ClavesPost \cup { <<1, "", "Rojo">>, <<1, "M", "">> }
Cantidades == -1..(MaxStock + 1)

\* One session's cart, with the stock edited in the admin meanwhile. The cart
\* is driven by the views or, when a Cart object is built on the empty
\* session, through that object.
PorVistas == ~cart_obj.existe /\ pedidos = << >>

CarritoAdd ==
    /\ PorVistas
    /\ vista' = SinVista
    /\ UNCHANGED <<reqs, precios, cart_obj>>
    /\ \E f \in FormulariosAdd, quantity \in Cantidades :
          add_to_cart(f[1], f[2], f[3], quantity)

CarritoVer ==
    /\ PorVistas
    /\ UNCHANGED <<reqs, precios, cart_obj>>
    /\ cart_view

CarritoRemove ==
    /\ PorVistas
    /\ vista' = SinVista
    /\ UNCHANGED <<reqs, precios, cart_obj>>
    /\ \E key \in ClavesPost : remove_from_cart(key)

CarritoIncrement ==
    /\ PorVistas
    /\ vista' = SinVista
    /\ UNCHANGED <<reqs, precios, cart_obj>>
    /\ \E key \in ClavesPost : increment_cart_item(key)

CarritoDecrement ==
    /\ PorVistas
    /\ vista' = SinVista
    /\ UNCHANGED <<reqs, precios, cart_obj>>
    /\ \E key \in ClavesPost : decrement_cart_item(key)

CheckoutGet ==
    /\ PorVistas
    /\ UNCHANGED <<reqs, precios, cart_obj>>
    /\ \E resp \in Respuestas : checkout_get(calculate_shipping(resp))

CheckoutPost ==
    /\ PorVistas
    /\ vista' = checkout_post_respuesta
    /\ UNCHANGED <<reqs, precios, cart_obj>>
    /\ \E resp \in Respuestas : checkout_post(calculate_shipping(resp))

AdminSetStock ==
    /\ ~cart_obj.existe
    /\ UNCHANGED <<reqs, precios, vista, cart_obj>>
    /\ \E f \in Filas, n \in 0..MaxStock : admin_set_stock(f, n)

AdminSetPrecio ==
    /\ UNCHANGED <<reqs, vista, cart_obj>>
    /\ \E p \in Productos, v \in Precios : admin_set_precio(p, v)

CartInit ==
    /\ PorVistas
    /\ cart = << >>
    /\ UNCHANGED <<reqs, precios>>
    /\ Cart_init

CartAdd ==
    /\ cart_obj.existe
    /\ UNCHANGED <<reqs, precios>>
    /\ \E product_id \in IdsProducto, quantity \in -1..MaxCant :
          /\ EnCarrito(cart_obj.cart, prod_key(product_id)) + quantity <= MaxCant
          /\ Cart_add(product_id, quantity)

CartRemove ==
    /\ cart_obj.existe
    /\ UNCHANGED <<reqs, precios>>
    /\ \E product_id \in IdsProducto : Cart_remove(product_id)

CartClear ==
    /\ cart_obj.existe
    /\ UNCHANGED <<reqs, precios>>
    /\ Cart_clear

CartGetItems ==
    /\ cart_obj.existe
    /\ UNCHANGED <<reqs, precios>>
    /\ Cart_get_items

CartGetTotal ==
    /\ cart_obj.existe
    /\ UNCHANGED <<reqs, precios>>
    /\ Cart_get_total

NextCart ==
    \/ CarritoAdd \/ CarritoVer \/ CarritoRemove \/ CarritoIncrement
    \/ CarritoDecrement \/ AdminSetStock
    \/ CartInit \/ CartAdd \/ CartRemove \/ CartClear \/ CartGetItems \/ CartGetTotal

SpecCart == Init /\ [][NextCart]_vars

\* ------------------------------------------------- a cart at its checkout
\* A session that has filled its cart from the initial stock and goes to
\* the checkout, with stock and prices edited in the admin meanwhile.
InitCheckout ==
    /\ precios = [p \in Productos |-> PrecioInicial(p)]
    /\ vista = SinVista
    /\ cart_obj = SinCart
    /\ stock = [f \in Filas |-> MaxStock]
    /\ cart \in Carritos \cup {<< >>}
    /\ pedidos = << >>
    /\ descuentos = << >>
    /\ msg = None
    /\ reqs = [r \in Reqs |-> ReqLibre]

NextCheckout ==
    CarritoVer \/ CheckoutGet \/ CheckoutPost \/ AdminSetStock \/ AdminSetPrecio

SpecCheckout == InitCheckout /\ [][NextCheckout]_vars

\* ------------------------------------- the checkout and its shipping lookup
\* A session that goes to the checkout with its cart: the page, the order,
\* and the lookup called on its own, with prices edited in the admin
\* meanwhile.
CalcularEnvio ==
    /\ UNCHANGED <<reqs, precios, cart_obj>>
    /\ \E resp \in Respuestas : llamar_calculate_shipping(resp)

NextEnvio == CheckoutGet \/ CheckoutPost \/ CalcularEnvio \/ AdminSetPrecio

SpecEnvio == InitCheckout /\ [][NextEnvio]_vars

\* --------------------------------------------- a cart with stale entries
\* A session reads its cart, through the cart page or through a Cart
\* object, while products and colour rows are deleted in the admin.
AdminDeleteProducto ==
    /\ UNCHANGED <<reqs, vista, cart_obj>>
    /\ \E p \in Productos : admin_delete_producto(p)

NextLectura ==
    \/ CarritoVer \/ AdminDeleteColor \/ AdminDeleteProducto
    \/ CartInit \/ CartAdd \/ CartGetItems \/ CartGetTotal

SpecLectura == InitCheckout /\ [][NextLectura]_vars

\* --------------------------------------- an order and the session after it
\* The session goes on using its cart after its order was created, the
\* staff updates the order, and prices are edited in the admin meanwhile.
CarritosLineas ==
    {c \in Carritos : /\ DOMAIN c \subseteq {<<1, "M", "Rojo">>, <<1, "M", "Azul">>}
                      /\ \A k \in DOMAIN c : c[k] = 1}

InitLineas ==
    /\ precios = [p \in Productos |-> PrecioInicial(p)]
    /\ vista = SinVista
    /\ cart_obj = SinCart
    /\ stock = [f \in Filas |-> MaxStock]
    /\ cart = << >>
    /\ \E c \in CarritosLineas :
          pedidos = << NuevoPedido(ItemsDesde(c, 1), 0, "pendiente", None) >>
    /\ descuentos = << 0 >>
    /\ msg = None
    /\ reqs = [r \in Reqs |-> ReqLibre]

\* The variant the session adds and removes after its order.
ClaveLineas == <<1, "M", "Rojo">>

LineasAdd ==
    /\ vista' = SinVista
    /\ UNCHANGED <<reqs, precios, cart_obj>>
    /\ \E quantity \in 1..MaxStock :
          add_to_cart(ClaveLineas[1], ClaveLineas[2], ClaveLineas[3], quantity)

LineasVer ==
    /\ UNCHANGED <<reqs, precios, cart_obj>>
    /\ cart_view

LineasRemove ==
    /\ vista' = SinVista
    /\ UNCHANGED <<reqs, precios, cart_obj>>
    /\ remove_from_cart(ClaveLineas)

LineasPrecio ==
    /\ UNCHANGED <<reqs, vista, cart_obj>>
    /\ \E v \in Precios : admin_set_precio(ClaveLineas[1], v)

\* The staff fulfils the order or puts it back to pending.
PanelPostLineas ==
    /\ TotalLogs(pedidos) < MaxLogPedido
    /\ UNCHANGED <<reqs, precios, vista, cart_obj>>
    /\ \E pk \in DOMAIN pedidos, e \in EstadosReq, t \in TrackingsReq :
          admin_order_detail(pk, e, t)

AdminChangeLineas ==
    /\ TotalLogs(pedidos) < MaxLogPedido
    /\ UNCHANGED <<reqs, precios, vista, cart_obj>>
    /\ \E pk \in DOMAIN pedidos, e \in EstadosReq, t \in TrackingsReq :
          save_model_change(pk, e, t)

NextLineas ==
    \/ LineasAdd \/ LineasVer \/ LineasRemove
    \/ PanelPostLineas \/ AdminChangeLineas \/ LineasPrecio

SpecLineas == InitLineas /\ [][NextLineas]_vars

\* -------------------------------------- claims under Spec and SpecPedido
\* The OrderLog rows a step appends to order pk.
Anexados(pk) ==
    SubSeq(pedidos'[pk].logs, Len(pedidos[pk].logs) + 1, Len(pedidos'[pk].logs))

\* How many entries of a sequence are of one kind (its action text).
Cuenta(logs, texto) == Cardinality({i \in DOMAIN logs : logs[i][1] = texto})

Contiene(logs, entrada) == \E i \in DOMAIN logs : logs[i] = entrada

Max0(n) == IF n > 0 THEN n ELSE 0

\* C2: an order whose status is 'realizado' has a non-empty tracking number.
C2_RealizadoConTracking ==
    \A pk \in DOMAIN pedidos :
        pedidos[pk].estado = "realizado"
            => pedidos[pk].tracking_number \notin {None, "", " "}

\* A fulfilled order on which an update without tracking has been refused.
C2_Witness ==
    \E pk \in DOMAIN pedidos :
        /\ pedidos[pk].estado = "realizado"
        /\ pedidos[pk].items # << >>
        /\ msg = "Falta tracking"

\* C3: a panel update asking for 'realizado' with an empty (or blank)
\* tracking number is refused and changes no order, stock, or audit log;
\* the admin form refuses the same data before save_model runs.
C3_RechazoSinMutacion ==
    [][\A pk \in DOMAIN pedidos : \A t \in {"", " "} :
          /\ admin_order_detail(pk, "realizado", t)
                => /\ msg' = "Falta tracking"
                   /\ UNCHANGED <<pedidos, stock, descuentos>>
          /\ save_model_change(pk, "realizado", t)
                => /\ msg' = "Formulario invalido"
                   /\ UNCHANGED <<pedidos, stock, descuentos>>]_vars

\* A pending order with lines on which such an update has been refused.
C3_Witness ==
    \E pk \in DOMAIN pedidos :
        /\ pedidos[pk].estado = "pendiente"
        /\ pedidos[pk].items # << >>
        /\ pedidos[pk].logs = << >>
        /\ msg = "Falta tracking"

\* The quantity the lines of an order ask of ColorStock row f.
RECURSIVE CantidadPedida(_, _)
CantidadPedida(items, f) ==
    IF items = << >> THEN 0
    ELSE LET it == Head(items)
             suya == /\ ColorStocks[f].talle_producto = <<it.producto, it.talle>>
                     /\ Lower(ColorStocks[f].color) = Lower(it.color)
         IN (IF suya THEN it.cantidad ELSE 0) + CantidadPedida(Tail(items), f)

\* C4: when an order moves from a non-fulfilled status to 'realizado', every
\* variant's stock drops by the quantity of the order's lines on it, floored
\* at zero, and the other variants keep their stock.
C4_DescuentoPorLinea ==
    [][\A pk \in DOMAIN pedidos :
          (pedidos[pk].estado # "realizado" /\ pedidos'[pk].estado = "realizado")
              => \A f \in Filas :
                    stock'[f] = Max0(stock[f] - CantidadPedida(pedidos[pk].items, f))]_vars

\* A fulfilled order with two lines on the same variant asking more than its
\* stock: that stock is floored at zero, the other variant is untouched.
C4_Witness ==
    \E pk \in DOMAIN pedidos :
        /\ pedidos[pk].estado = "realizado"
        /\ descuentos[pk] = 1
        /\ Len(pedidos[pk].items) = 2
        /\ pedidos[pk].items[1].color = "Rojo"
        /\ pedidos[pk].items[2].color = "rojo"
        /\ pedidos[pk].items[1].cantidad + pedidos[pk].items[2].cantidad > MaxStock
        /\ stock[1] = 0
        /\ stock[2] = MaxStock

\* C5: moving a pending order to 'realizado' with tracking number T1 appends
\* exactly one stock-decremented entry and exactly one status-changed entry.
C5_LogsDeRealizado ==
    [][\A pk \in DOMAIN pedidos :
          (/\ pedidos[pk].estado = "pendiente"
           /\ pedidos'[pk].estado = "realizado"
           /\ pedidos'[pk].tracking_number = "T1")
              => /\ Cuenta(Anexados(pk), LogStock[1]) = 1
                 /\ Cuenta(Anexados(pk), "Estado cambiado") = 1
                 /\ Contiene(Anexados(pk), LogEstado("pendiente", "realizado"))]_vars

\* An order with lines fulfilled from pending with tracking number T1.
C5_Witness ==
    \E pk \in DOMAIN pedidos :
        /\ pedidos[pk].estado = "realizado"
        /\ pedidos[pk].tracking_number = "T1"
        /\ pedidos[pk].items # << >>
        /\ Len(pedidos[pk].logs) = 3
        /\ Contiene(pedidos[pk].logs, LogEstado("pendiente", "realizado"))

\* C6: an update of an existing order appends a status-change entry (with
\* the previous and new status) iff the status changed, a tracking-change
\* entry (previous and new number) iff the tracking number changed, and
\* nothing when neither changed.
C6_LogsDeCambio ==
    [][\A pk \in DOMAIN pedidos :
          LET a == pedidos[pk]
              b == pedidos'[pk]
              n == Anexados(pk)
          IN /\ Cuenta(n, "Estado cambiado") = (IF a.estado # b.estado THEN 1 ELSE 0)
             /\ a.estado # b.estado => Contiene(n, LogEstado(a.estado, b.estado))
             /\ Cuenta(n, "Tracking actualizado")
                   = (IF a.tracking_number # b.tracking_number THEN 1 ELSE 0)
             /\ a.tracking_number # b.tracking_number
                   => Contiene(n, LogTracking(a.tracking_number, b.tracking_number))
             /\ (a.estado = b.estado /\ a.tracking_number = b.tracking_number)
                   => n = << >>]_vars

\* An order that has had a tracking-only update and then a status-only one.
C6_Witness ==
    \E pk \in DOMAIN pedidos :
        /\ pedidos[pk].items # << >>
        /\ pedidos[pk].logs = << LogTracking(None, "T2"),
                                 LogEstado("pendiente", "rechazado") >>

\* C7 as stated: once an order is 'realizado' or 'rechazado' no update
\* changes its status.
C7_Terminales ==
    [][\A pk \in DOMAIN pedidos :
          pedidos[pk].estado \in {"realizado", "rechazado"}
              => pedidos'[pk].estado = pedidos[pk].estado]_vars

\* Whether an update asking (estado, tracking) of an order in status
\* `actual` is refused for want of a tracking number.
SinTracking(actual, estado_post, t) ==
    (IF estado_post = Ausente THEN actual ELSE estado_post) = "realizado"
        /\ t \in {"", " "}

\* C7 amended: an order created at checkout starts 'pendiente'; no status is
\* terminal: from any status, a panel update that is not refused for a
\* missing tracking number stores the status it asks for (an update without
\* the status field keeps it), and so does an admin save of a valid status.
C7_SinTerminales ==
    [][/\ \A envio \in Envios :
            checkout_post(envio) => pedidos'[Len(pedidos')].estado = "pendiente"
       /\ \A pk \in DOMAIN pedidos : \A e \in EstadosPost : \A t \in TrackingsPost :
            admin_order_detail(pk, e, t)
                => pedidos'[pk].estado =
                      IF SinTracking(pedidos[pk].estado, e, t) \/ e = Ausente
                        THEN pedidos[pk].estado ELSE e
       /\ \A pk \in DOMAIN pedidos : \A e \in ESTADOS : \A t \in TrackingsPost :
            save_model_change(pk, e, t)
                => pedidos'[pk].estado =
                      IF SinTracking(pedidos[pk].estado, e, t)
                        THEN pedidos[pk].estado ELSE e]_vars

\* An order created at checkout that was rejected and then left that status.
C7_Witness ==
    \E pk \in DOMAIN pedidos :
        /\ pedidos[pk].items # << >>
        /\ Len(pedidos[pk].logs) >= 2
        /\ pedidos[pk].logs[1] = LogEstado("pendiente", "rechazado")
        /\ pedidos[pk].logs[2][1] = "Estado cambiado"
        /\ pedidos[pk].logs[2][2] = "rechazado"
        /\ pedidos[pk].estado # "rechazado"

\* C8: an update that leaves a fulfilled order fulfilled decrements no stock
\* and appends no stock entry: it appends a tracking-change entry when the
\* tracking number differs and nothing otherwise.
C8_RealizadoDeNuevo ==
    [][\A pk \in DOMAIN pedidos :
          LET tras == IF pedidos[pk].tracking_number # pedidos'[pk].tracking_number
                        THEN << LogTracking(pedidos[pk].tracking_number,
                                            pedidos'[pk].tracking_number) >>
                        ELSE << >>
              efecto == /\ stock' = stock
                        /\ descuentos' = descuentos
                        /\ pedidos'[pk].estado = "realizado"
                        /\ Anexados(pk) = tras
          IN pedidos[pk].estado = "realizado"
               => /\ \A e \in {"realizado", Ausente} : \A t \in TrackingsPost :
                        admin_order_detail(pk, e, t) => efecto
                  /\ \A t \in TrackingsPost :
                        save_model_change(pk, "realizado", t) => efecto]_vars

\* A fulfilled order with lines whose tracking number was then replaced,
\* its stock decremented once.
C8_Witness ==
    \E pk \in DOMAIN pedidos :
        /\ pedidos[pk].estado = "realizado"
        /\ pedidos[pk].items # << >>
        /\ descuentos[pk] = 1
        /\ Len(pedidos[pk].logs) = 4
        /\ pedidos[pk].logs[4] = LogTracking("T1", "T2")

\* ------------------------------------------ a session and its orders
\* One session fills its cart with one variant, reads it, checks out and
\* goes on using the cart, while the staff updates the order and edits the
\* variant's stock in the admin.
SesionAdd ==
    /\ vista' = SinVista
    /\ UNCHANGED <<reqs, precios, cart_obj>>
    /\ \E quantity \in 0..MaxStock :
          add_to_cart(ClaveLineas[1], ClaveLineas[2], ClaveLineas[3], quantity)

SesionIncrement ==
    /\ vista' = SinVista
    /\ UNCHANGED <<reqs, precios, cart_obj>>
    /\ increment_cart_item(ClaveLineas)

SesionDecrement ==
    /\ vista' = SinVista
    /\ UNCHANGED <<reqs, precios, cart_obj>>
    /\ decrement_cart_item(ClaveLineas)

\* The session checks out once.
SesionCheckout ==
    /\ pedidos = << >>
    /\ vista' = checkout_post_respuesta
    /\ UNCHANGED <<reqs, precios, cart_obj>>
    /\ \E resp \in Respuestas : checkout_post(calculate_shipping(resp))

\* The staff posts a status (fulfilment, back to pending, rejection) with or
\* without a tracking number.
PanelPostSesion ==
    /\ TotalLogs(pedidos) < MaxLogPedido
    /\ UNCHANGED <<reqs, precios, vista, cart_obj>>
    /\ \E pk \in DOMAIN pedidos, e \in ESTADOS, t \in {"", "T1"} :
          admin_order_detail(pk, e, t)

AdminChangeSesion ==
    /\ TotalLogs(pedidos) < MaxLogPedido
    /\ UNCHANGED <<reqs, precios, vista, cart_obj>>
    /\ \E pk \in DOMAIN pedidos, e \in ESTADOS, t \in {"", "T1"} :
          save_model_change(pk, e, t)

\* The stock of the variant is set in the admin.
SesionStock ==
    /\ UNCHANGED <<reqs, precios, vista, cart_obj>>
    /\ \E f \in Filas, n \in 0..MaxStock :
          /\ ColorStocks[f].color = ClaveLineas[3]
          /\ admin_set_stock(f, n)

NextSesion ==
    \/ SesionAdd \/ LineasVer \/ LineasRemove \/ SesionIncrement
    \/ SesionDecrement \/ SesionCheckout
    \/ PanelPostSesion \/ AdminChangeSesion \/ SesionStock

SpecSesion == Init /\ [][NextSesion]_vars

\* ------------------------------------------------- claims under SpecCart
\* The quantity a mapping holds for a key, 0 when the key is absent.
Guardado(c, key) == IF key \in DOMAIN c THEN c[key] ELSE 0

\* The live stock of the variant a cart key names.
StockDe(key) == _variant_stock(stock, key[1], key[2], key[3])

\* The other keys of a mapping are as they were.
OtrasIguales(antes, despues, key) ==
    /\ DOMAIN despues \ {key} = DOMAIN antes \ {key}
    /\ \A k \in DOMAIN antes \ {key} : despues[k] = antes[k]

\* The message add_to_cart queues when it has added n > 0 units of a
\* request it had to cut to the stock s.
InformaLimitado ==
    [n \in 0..(MaxStock + 1) |-> [s \in 0..(MaxStock + 1) |->
        "Se agregaron " \o ToString(n) \o " (limitado por stock: " \o ToString(s) \o ")"]]

\* The messages add_to_cart queues when it adds nothing for want of stock.
InformaNada ==
    [s \in 0..(MaxStock + 1) |->
        {"Sin stock", "Stock maximo alcanzado (" \o ToString(s) \o ")"}]

\* An addition of n units out of a request cut to the stock s is reported.
InformaAgregado(m, n, s) ==
    \/ n > 0 /\ m = InformaLimitado[n][s]
    \/ n = 0 /\ m \in InformaNada[s]

\* C11 as stated: for q > 0, stock s and cart quantity c with c + q > s,
\* adding leaves the stored quantity equal to s and reports s - c as added.
C11_TopeSiempre ==
    [][\A key \in ClavesPost : \A q \in 1..(MaxStock + 1) :
          LET c == Guardado(cart, key)
              s == StockDe(key)
          IN (c + q > s /\ add_to_cart(key[1], key[2], key[3], q))
                => /\ Guardado(cart', key) = s
                   /\ InformaAgregado(msg', s - c, s)]_vars

\* C11 amended: for q > 0, stock s and cart quantity c <= s with c + q > s,
\* adding leaves the stored quantity equal to s and reports s - c as added
\* (nothing is added and the cart is unchanged when c = s); when the cart
\* already holds more than the stock, c > s, the cart is left unchanged and
\* no amount is reported as added.
C11_TopeHastaStock ==
    [][\A key \in ClavesPost : \A q \in 1..(MaxStock + 1) :
          LET c == Guardado(cart, key)
              s == StockDe(key)
          IN (c + q > s /\ add_to_cart(key[1], key[2], key[3], q))
                => IF c <= s
                     THEN /\ Guardado(cart', key) = s
                          /\ InformaAgregado(msg', s - c, s)
                          /\ OtrasIguales(cart, cart', key)
                     ELSE /\ cart' = cart
                          /\ msg' \in InformaNada[s]]_vars

\* A cart whose entry was filled up to the stock by an addition that asked
\* for more: one unit was added of the stock of MaxStock.
C11_Witness ==
    /\ msg = InformaLimitado[1][MaxStock]
    /\ \E key \in DOMAIN cart : cart[key] = MaxStock /\ StockDe(key) = MaxStock

\* C12: when q > 0 and the cart quantity c of the key give c + q <= stock,
\* add_to_cart stores c + q for the key (q for a new key) and leaves the
\* other keys as they were; Cart.add does so for an existing product, c
\* being the quantity the Cart object holds for it, and saves the object's
\* mapping in the session.
C12_SumaExacta ==
    [][/\ \A key \in ClavesPost : \A q \in 1..(MaxStock + 1) :
            (Guardado(cart, key) + q <= StockDe(key)
                /\ add_to_cart(key[1], key[2], key[3], q))
                => /\ key \in DOMAIN cart'
                   /\ cart'[key] = Guardado(cart, key) + q
                   /\ OtrasIguales(cart, cart', key)
       /\ \A p \in Productos : \A q \in 1..MaxCant :
            (cart_obj.existe /\ Cart_add(p, q))
                => /\ <<p>> \in DOMAIN cart_obj'.cart
                   /\ cart_obj'.cart[<<p>>] = Guardado(cart_obj.cart, <<p>>) + q
                   /\ OtrasIguales(cart_obj.cart, cart_obj'.cart, <<p>>)
                   /\ cart' = cart_obj'.cart]_vars

\* A cart with two entries, one of them raised to 2 by a second addition of
\* one unit that fitted in the stock.
C12_Witness ==
    /\ msg = "Se agregaron 1 unidad(es)"
    /\ Cardinality(DOMAIN cart) = 2
    /\ \E key \in DOMAIN cart : cart[key] = 2 /\ StockDe(key) >= 2

\* C13: an addition with a requested quantity of 0 or less is refused with
\* a quantity error and leaves the cart as it was, in add_to_cart and in
\* Cart.add.
C13_CantidadRechazada ==
    [][/\ \A key \in ClavesPost : \A q \in -1..0 :
            add_to_cart(key[1], key[2], key[3], q)
                => msg' = "Cantidad invalida" /\ cart' = cart
       /\ \A p \in IdsProducto : \A q \in -1..0 :
            (cart_obj.existe /\ Cart_add(p, q))
                => /\ msg' = "CartError: Quantity must be a positive integer"
                   /\ cart' = cart
                   /\ cart_obj' = cart_obj]_vars

\* A non-empty cart on which such an addition has just been refused.
C13_Witness ==
    /\ msg = "Cantidad invalida"
    /\ cart # << >>

\* C14: an addition of q > 0 when nothing can be added (the variant has no
\* stock or does not exist, or the cart holds the stock or more) raises
\* nothing: a warning is queued, nothing is added, the cart is unchanged and
\* no key is created.
C14_NadaQueAgregar ==
    [][\A key \in ClavesPost : \A q \in 1..(MaxStock + 1) :
          LET c == Guardado(cart, key)
              s == StockDe(key)
          IN ((s = 0 \/ c >= s) /\ add_to_cart(key[1], key[2], key[3], q))
                => /\ cart' = cart
                   /\ DOMAIN cart' = DOMAIN cart
                   /\ msg' \in InformaNada[s]]_vars

\* A cart that holds the whole stock of a variant, on which an addition has
\* just added nothing.
C14_Witness ==
    /\ msg \in InformaNada[MaxStock] \ {"Sin stock"}
    /\ \E key \in DOMAIN cart : cart[key] = MaxStock /\ StockDe(key) = MaxStock

\* The line the cart page shows for a key, 0 when it shows none.
Mostrada(items, key) ==
    LET m == {i \in DOMAIN items : items[i].key = key}
    IN IF m = {} THEN 0 ELSE items[CHOOSE i \in m : TRUE].cantidad

\* C15: a read of the cart page re-validates every entry against the live
\* stock s: an entry above s > 0 is lowered to s and the change is flagged,
\* an entry whose stock is zero is removed, the session stores the corrected
\* quantities, and an entry within its stock is unchanged; the page shows
\* the quantities stored.
C15_LecturaReconcilia ==
    [][(~cart_obj.existe /\ cart_view) =>
          /\ DOMAIN cart' \subseteq DOMAIN cart
          /\ \A key \in DOMAIN cart :
                LET c == cart[key]
                    s == StockDe(key)
                IN /\ s = 0 => key \notin DOMAIN cart' /\ vista'.session_changed
                   /\ (s > 0 /\ c > s) => Guardado(cart', key) = s /\ vista'.session_changed
                   /\ (s > 0 /\ c <= s) => Guardado(cart', key) = c
                   /\ Mostrada(vista'.items, key) = Guardado(cart', key)
          /\ vista'.session_changed
                => \E key \in DOMAIN cart : cart[key] > StockDe(key)
          /\ Len(vista'.items) = Cardinality(DOMAIN cart')]_vars

\* The cart page read after the stock of the only entry dropped from
\* MaxStock to 1: the entry is shown and stored as 1 and the change flagged.
C15_Witness ==
    /\ vista.pagina = "cart"
    /\ vista.session_changed
    /\ \A f \in Filas : stock[f] > 0
    /\ DOMAIN cart = {<<1, "M", "Rojo">>}
    /\ cart[<<1, "M", "Rojo">>] = 1
    /\ stock[1] = 1
    /\ Len(vista.items) = 1
    /\ vista.items[1].cantidad = 1

\* C17: remove_from_cart of a key the cart does not hold queues a not-found
\* error and leaves the cart as it was; of a key it holds, deletes that
\* entry and leaves the other entries as they were. Cart.remove does the
\* same on the mapping the Cart object holds, raising CartError.
C17_Remove ==
    [][/\ \A key \in ClavesPost :
            remove_from_cart(key)
                => IF key \in DOMAIN cart
                     THEN /\ DOMAIN cart' = DOMAIN cart \ {key}
                          /\ \A k \in DOMAIN cart' : cart'[k] = cart[k]
                     ELSE /\ cart' = cart
                          /\ msg' = "El producto no estaba en el carrito"
       /\ \A p \in IdsProducto :
            (cart_obj.existe /\ Cart_remove(p))
                => IF <<p>> \in DOMAIN cart_obj.cart
                     THEN /\ DOMAIN cart_obj'.cart = DOMAIN cart_obj.cart \ {<<p>>}
                          /\ \A k \in DOMAIN cart_obj'.cart :
                                cart_obj'.cart[k] = cart_obj.cart[k]
                          /\ cart' = cart_obj'.cart
                     ELSE /\ cart_obj' = cart_obj
                          /\ cart' = cart
                          /\ msg' = "CartError: Product not in cart"]_vars

\* A cart that had two entries, from which one was removed: the one holding
\* MaxStock units is still there.
C17_Witness ==
    /\ msg = "Producto eliminado del carrito"
    /\ Cardinality(DOMAIN cart) = 1
    /\ \E key \in DOMAIN cart : cart[key] = MaxStock

\* C18: after Cart.clear() the same object's get_items() returns the empty
\* list and the session's 'cart' is the empty mapping, and an add on the
\* object whose session cart is empty stores that product alone: what was
\* added before the clear does not reappear.
C18_ClearVacia ==
    [][cart_obj.existe =>
          /\ Cart_clear => GetItems(cart_obj'.cart) = << >> /\ cart' = << >>
          /\ \A p \in Productos : \A q \in 1..MaxCant :
                (cart = << >> /\ Cart_add(p, q))
                    => cart' = ConClave(<< >>, <<p>>, q)]_vars

\* The sum of quantity x unit price over the lines of a read.
RECURSIVE SumaLineas(_, _, _)
SumaLineas(items, cantidad, producto) ==
    IF items = << >> THEN 0
    ELSE Head(items)[cantidad] * precios[Head(items)[producto]]
            + SumaLineas(Tail(items), cantidad, producto)

\* C19: the total a read of the cart returns is the sum of quantity x unit
\* price over the entries that read returns, each entry's subtotal is its
\* quantity x its unit price, and the total is zero when the read returns no
\* entry; on the cart page and in Cart.get_items / Cart.get_total.
C19_TotalDeLaLectura ==
    [][/\ (~cart_obj.existe /\ cart_view) =>
            /\ vista'.total = SumaLineas(vista'.items, "cantidad", "producto")
            /\ \A i \in DOMAIN vista'.items :
                  vista'.items[i].subtotal
                      = vista'.items[i].cantidad * precios[vista'.items[i].producto]
            /\ vista'.items = << >> => vista'.total = 0
       /\ (cart_obj.existe /\ Cart_get_total) =>
            /\ vista'.total = SumaLineas(GetItems(cart_obj.cart), "quantity", "product")
            /\ GetItems(cart_obj.cart) = << >> => vista'.total = 0
       /\ (cart_obj.existe /\ Cart_get_items) =>
            \A i \in DOMAIN vista'.items :
                /\ vista'.items[i].price = precios[vista'.items[i].product]
                /\ vista'.items[i].subtotal
                      = vista'.items[i].quantity * vista'.items[i].price]_vars

\* The cart page showing two entries, with the total of both.
C19_Witness ==
    /\ vista.pagina = "cart"
    /\ Len(vista.items) = 2
    /\ vista.items[1].cantidad = 2
    /\ vista.total = 3 * precios[1]

\* ---------------------------------------------- claims under SpecCheckout
\* C16: every quantity the cart page or the checkout page shows is at most
\* the live stock of its variant at that read.
C16_MostradoHastaStock ==
    [][/\ (~cart_obj.existe /\ cart_view) =>
            \A i \in DOMAIN vista'.items :
                vista'.items[i].cantidad <= StockDe(vista'.items[i].key)
       /\ (\E envio \in Envios : checkout_get(envio)) =>
            \A i \in DOMAIN vista'.items :
                LET it == vista'.items[i]
                IN it.qty <= _variant_stock(stock, it.producto, it.talle, it.color)]_vars

\* C20: the total of an order created at checkout is the sum of quantity x
\* unit price over the reconciled cart entries (quantities lowered to the
\* live stock, entries without stock dropped), at the unit price stored on
\* the order's lines, plus the stored shipping cost; the order's lines are
\* those entries.
C20_TotalReconciliado ==
    [][\A envio \in Envios :
          (pedidos = << >> /\ checkout_post(envio))
              => LET o == pedidos'[1]
                     r == ItemsDesde(Reconciliado(cart, stock), 1)
                 IN /\ Len(o.items) = Len(r)
                    /\ \A i \in DOMAIN r :
                          /\ o.items[i].producto = r[i].producto
                          /\ o.items[i].talle = r[i].talle
                          /\ o.items[i].color = r[i].color
                          /\ o.items[i].cantidad = r[i].cantidad
                    /\ o.total = Subtotal(o.items) + o.shipping_cost
                    /\ o.total = Subtotal(r) + o.shipping_cost]_vars

\* ------------------------------------------------- claims under SpecCiclo
\* C1: whatever the sequence of updates of one order, its lines' stock is
\* decremented for that order at most once.
C1_DescuentoUnaVez ==
    \A pk \in DOMAIN pedidos :
        /\ descuentos[pk] <= 1
        /\ \A f \in Filas :
              stock[f] >= Max0(MaxStock - CantidadPedida(pedidos[pk].items, f))

\* --------------------------------------------------- claims under SpecReq
Quieto == \A r \in Reqs : reqs[r].pc \in {"libre", "fin", "fallo"}

\* C9: a fulfilment is all-or-nothing: once no request is running, an order
\* in status 'realizado' has had every line's stock decremented and has its
\* status-change and stock entries in the audit log.
C9_TodoONada ==
    Quieto =>
        \A pk \in DOMAIN pedidos :
            pedidos[pk].estado = "realizado"
                => /\ Contiene(pedidos[pk].logs, LogStock)
                   /\ Cuenta(pedidos[pk].logs, "Estado cambiado") >= 1
                   /\ \A f \in Filas :
                         stock[f] <= Max0(MaxStock - CantidadPedida(pedidos[pk].items, f))

\* C10: under every interleaving of two fulfilment requests for the same
\* pending order, each line's stock is decremented at most once and at most
\* one stock entry is appended.
C10_UnDescuentoConcurrente ==
    \A pk \in DOMAIN pedidos :
        /\ Cuenta(pedidos[pk].logs, LogStock[1]) <= 1
        /\ descuentos[pk] <= 1
        /\ \A f \in Filas :
              stock[f] >= Max0(MaxStock - CantidadPedida(pedidos[pk].items, f))

\* ------------------------------------------------- claims under SpecLineas
\* C21: once an order exists its lines never change, whatever the request
\* (panel update, admin save, fulfilment, cart request, price change); a
\* panel update also leaves total, shipping cost and buyer unchanged; only
\* a price change touches a price, and it leaves every stored unit price.
C21_LineasInmutables ==
    [][/\ Len(pedidos') >= Len(pedidos)
       /\ \A pk \in DOMAIN pedidos :
            /\ pedidos'[pk].items = pedidos[pk].items
            /\ (\E e \in EstadosPost, t \in TrackingsPost : admin_order_detail(pk, e, t))
                 => /\ pedidos'[pk].total = pedidos[pk].total
                    /\ pedidos'[pk].shipping_cost = pedidos[pk].shipping_cost
                    /\ pedidos'[pk].buyer_name = pedidos[pk].buyer_name]_vars

\* An order fulfilled by the panel, with a cart refilled after it and the
\* price of its product changed since: its line still carries the old price.
C21_Witness ==
    /\ Len(pedidos) = 1
    /\ pedidos[1].estado = "realizado"
    /\ pedidos[1].items # << >>
    /\ cart # << >>
    /\ \E i \in DOMAIN pedidos[1].items :
          pedidos[1].items[i].precio_unitario # precio(pedidos[1].items[i].producto)

C23_CostoOError ==
    vista.pagina = "calculate_shipping"
        => IF vista.respuesta \in Fallidas
             THEN vista.resultado.tipo = "ShippingError"
             ELSE vista.resultado = [tipo |-> "cost", cost |-> vista.respuesta.cost]

C25_AvisoSiFalla ==
    [][\A resp \in Fallidas :
        (checkout_get(calculate_shipping(resp)) \/ checkout_post(calculate_shipping(resp)))
            => msg' = "No se pudo calcular envio"]_vars

\* The line of an order that a cart entry gives, at the current price.
LineaDe(c, key) ==
    [producto |-> key[1], talle |-> key[2], color |-> key[3],
     cantidad |-> c[key], precio_unitario |-> precio(key[1])]

\* C26: a checkout POST adds exactly one order, pending and without tracking
\* number, with exactly one line per cart entry that carries the entry's
\* product, size, colour and quantity and the product's current price; it
\* empties the session cart and answers with the id of the new order.
C26_PedidoDelCarrito ==
    [][\A resp \in Respuestas :
        (checkout_post(calculate_shipping(resp)) /\ vista' = checkout_post_respuesta)
            => /\ Len(pedidos') = Len(pedidos) + 1
               /\ SubSeq(pedidos', 1, Len(pedidos)) = pedidos
               /\ LET pedido == pedidos'[Len(pedidos')]
                  IN /\ pedido.estado = "pendiente"
                     /\ pedido.tracking_number = None
                     /\ Len(pedido.items) = Cardinality(DOMAIN cart)
                     /\ \A key \in DOMAIN cart :
                          Cardinality({i \in DOMAIN pedido.items :
                                          pedido.items[i] = LineaDe(cart, key)}) = 1
               /\ cart' = << >>
               /\ vista'.pagina = "redirect"
               /\ vista'.pk = Len(pedidos')]_vars

\* The order of a cart of two entries, created after the price of their
\* product was changed: the answer names it and the cart is empty.
C26_Witness ==
    /\ Len(pedidos) = 1
    /\ Len(pedidos[1].items) = 2
    /\ \A i \in DOMAIN pedidos[1].items :
          pedidos[1].items[i].precio_unitario # PrecioInicial(pedidos[1].items[i].producto)
    /\ cart = << >>
    /\ vista = [pagina |-> "redirect", to |-> "store:order_detail", pk |-> 1]

\* ------------------------------------------------- claims under SpecPedido
\* C27: in every reachable state the status of every order is one of
\* 'pendiente', 'realizado' and 'rechazado'.
C27_EstadoValido ==
    \A pk \in DOMAIN pedidos : pedidos[pk].estado \in ESTADOS

\* ---------------------------------------------------- claims under SpecDos
\* C28: the stock of every variant is a non-negative integer in every
\* reachable state.
C28_StockNoNegativo ==
    \A f \in DOMAIN stock : stock[f] \in Nat

\* Two orders on the same variant, both fulfilled, whose quantities add up
\* to more than the stock there was: the second decrement stopped at zero.
C28_Witness ==
    /\ Len(pedidos) = 2
    /\ \A pk \in DOMAIN pedidos :
          /\ pedidos[pk].estado = "realizado"
          /\ descuentos[pk] = 1
    /\ pedidos[1].items[1].cantidad + pedidos[2].items[1].cantidad > MaxStock
    /\ stock[1] = 0

\* ----------------------------------------------- claims under SpecVariante
\* The order has a line whose colour row is not in the stock table.
LineaSinVariante(pk) ==
    \E i \in DOMAIN pedidos[pk].items :
        LET it == pedidos[pk].items[i]
        IN PrimerColorStock(stock, <<it.producto, it.talle>>, it.color) = 0

\* C29: a fulfilment of an order that has a line whose variant no longer
\* exists is not passed over in silence: the request does not end with the
\* plain success message, and no "stock decremented" entry is appended.
C29_FaltanteInformado ==
    [][\A pk \in DOMAIN pedidos :
        (PasaARealizado(pedidos[pk].estado, pedidos'[pk].estado) /\ LineaSinVariante(pk))
            => /\ msg' \notin {"Pedido actualizado", "Pedido guardado"}
               /\ ~Contiene(Anexados(pk), LogStock)]_vars

\* ------------------------------------------------ claims under SpecLectura
\* C30: a read of the cart does not fail on stale entries: the cart page
\* is rendered, without the entries whose product or variant is gone and
\* with the total of the others, and Cart.get_items returns the items whose
\* product exists.
C30_LecturaNoFalla ==
    [][/\ (~cart_obj.existe /\ cart_view)
            => /\ vista'.pagina = "cart"
               /\ vista'.total = SumaSubtotales(vista'.items)
               /\ \A k \in DOMAIN cart :
                    (k[1] \in DOMAIN precios /\ StockDe(k) > 0)
                        <=> (\E i \in DOMAIN vista'.items : vista'.items[i].key = k)
       /\ (cart_obj.existe /\ Cart_get_items)
            => /\ vista'.pagina = "get_items"
               /\ \A k \in DOMAIN cart_obj.cart :
                    (k[1] \in DOMAIN precios)
                        <=> (\E i \in DOMAIN vista'.items : vista'.items[i].product = k[1])]_vars

\* ------------------------------------------------- the cart's quantities
\* C31: increment_cart_item raises the quantity of a key the cart holds by
\* exactly 1 when that quantity is below the variant's live stock and
\* otherwise leaves the cart as it was; decrement_cart_item lowers a
\* quantity above 1 by exactly 1 and deletes the entry whose quantity is 1;
\* both leave the cart as it was for a key it does not hold, and neither
\* changes another key.
C31_MasMenosUno ==
    [][\A key \in ClavesPost :
          /\ increment_cart_item(key)
                => /\ OtrasIguales(cart, cart', key)
                   /\ IF key \in DOMAIN cart /\ cart[key] < StockDe(key)
                        THEN /\ key \in DOMAIN cart'
                             /\ cart'[key] = cart[key] + 1
                        ELSE cart' = cart
          /\ decrement_cart_item(key)
                => /\ OtrasIguales(cart, cart', key)
                   /\ IF key \notin DOMAIN cart
                        THEN cart' = cart
                        ELSE IF cart[key] > 1
                               THEN /\ key \in DOMAIN cart'
                                    /\ cart'[key] = cart[key] - 1
                               ELSE key \notin DOMAIN cart']_vars

\* A cart of two entries after a decrement has deleted a third one: one
\* entry holds a single unit and the other one is at its variant's stock, so
\* that an increment of it is refused.
C31_Witness ==
    /\ ~cart_obj.existe
    /\ msg = "Producto eliminado del carrito"
    /\ Cardinality(DOMAIN cart) = 2
    /\ \E k \in DOMAIN cart : cart[k] = 1
    /\ \E k \in DOMAIN cart : cart[k] > 1 /\ cart[k] >= StockDe(k)

\* ------------------------------------------------- claims under SpecSesion
\* C32: every quantity the session cart stores is an integer of at least 1,
\* after any sequence of add, increment, decrement, remove, cart read and
\* checkout requests interleaved with stock changes: no request leaves a
\* key with a quantity of zero or less.
C32_CantidadesPositivas ==
    \A k \in DOMAIN cart : cart[k] \in Int /\ cart[k] >= 1

\* After its order was created the session has filled the cart again, the
\* stock was lowered in the admin, and the cart page has cut the entry to
\* the single unit left.
C32_Witness ==
    /\ Len(pedidos) = 1
    /\ vista # SinVista
    /\ vista.pagina = "cart"
    /\ vista.session_changed
    /\ ClaveLineas \in DOMAIN cart
    /\ cart[ClaveLineas] = 1

\* The order pk goes from another status into 'realizado' in this step.
EntraEnRealizado(pk) ==
    /\ pedidos[pk].estado # "realizado"
    /\ pedidos'[pk].estado = "realizado"

\* C33: the stock of the variants changes only when an order goes into
\* 'realizado': cart add, increment, decrement, remove, cart read, the
\* checkout that creates the order, and the updates of an order that do not
\* take it into 'realizado' (to pending or rejected, leaving 'realizado'
\* included, a new tracking number, a refused request) leave every
\* variant's stock as it was.
C33_StockSoloAlRealizar ==
    [][stock' # stock
          => /\ ~(\/ SesionAdd \/ LineasVer \/ LineasRemove
                  \/ SesionIncrement \/ SesionDecrement \/ SesionCheckout)
             /\ \A pk \in DOMAIN pedidos, e \in EstadosPost, t \in TrackingsPost :
                  (admin_order_detail(pk, e, t) \/ save_model_change(pk, e, t))
                      => EntraEnRealizado(pk)]_vars

\* The order of one unit was fulfilled once and then rejected, and the
\* session holds a new cart: the variant's stock is one unit below the
\* initial one.
C33_Witness ==
    /\ Len(pedidos) = 1
    /\ pedidos[1].estado = "rechazado"
    /\ descuentos[1] = 1
    /\ stock[1] = MaxStock - 1
    /\ ClaveLineas \in DOMAIN cart

\* ------------------------------------------------- claims under SpecDosReq
\* C34: when two pending orders with a line on the same variant have both
\* been fulfilled, each once by its own request and under any interleaving
\* of the two requests, the variant's stock is max(0, max(0, s - q1) - q2) for the
\* initial stock s and the two line quantities: no decrement is lost by one
\* request overwriting the stock the other one wrote.
C34_SinDescuentoPerdido ==
    (/\ \A r \in Reqs : reqs[r].pc = "fin"
     /\ \A pk \in DOMAIN pedidos : pedidos[pk].estado = "realizado" /\ descuentos[pk] = 1)
        => stock[1] = Max0(Max0(MaxStock - pedidos[1].items[1].cantidad)
                                - pedidos[2].items[1].cantidad)

\* ------------------------------------------- the two update paths compared
\* The entries of a sequence of log rows, as a set.
Entradas(logs) == {logs[i] : i \in DOMAIN logs}

\* What admin_order_detail does with a POST for order pk: whether it accepts
\* it, and the status, tracking number, stock table and appended entries it
\* leaves.
SalidaPanel(pk, estado_post, tracking_post) ==
    LET pedido == pedidos[pk]
        nuevo_estado == NuevoEstado(pedido.estado, estado_post)
        nuevo_tracking == Strip(tracking_post)
        tracking == IF nuevo_tracking # "" THEN nuevo_tracking ELSE None
    IN IF FaltaTracking(nuevo_estado, nuevo_tracking)
         THEN [acepta |-> FALSE, estado |-> pedido.estado,
               tracking |-> pedido.tracking_number, stock |-> stock, logs |-> {}]
         ELSE [acepta |-> TRUE, estado |-> nuevo_estado, tracking |-> tracking,
               stock |-> IF PasaARealizado(pedido.estado, nuevo_estado)
                           THEN descontar_stock_si_realizado(stock, pedido.items)
                           ELSE stock,
               logs |-> Entradas(LogsPanel(pedido.estado, pedido.tracking_number,
                                           nuevo_estado, tracking))]

\* The same for the change form of PedidoAdmin: PedidoForm's validation,
\* then save_model.
SalidaAdmin(pk, estado_post, tracking_post) ==
    LET prev == pedidos[pk]
        tracking == CampoTracking(tracking_post)
    IN IF ~FormValido(estado_post, tracking)
         THEN [acepta |-> FALSE, estado |-> prev.estado,
               tracking |-> prev.tracking_number, stock |-> stock, logs |-> {}]
         ELSE [acepta |-> TRUE, estado |-> estado_post, tracking |-> tracking,
               stock |-> IF PasaARealizado(prev.estado, estado_post)
                           THEN descontar_stock_si_realizado(stock, prev.items)
                           ELSE stock,
               logs |-> Entradas(LogsAdmin(TRUE, prev.estado, prev.tracking_number,
                                           estado_post, tracking))]

\* What the step just taken has done to order pk.
SalidaDelPaso(pk) ==
    [acepta |-> msg' \in {"Pedido actualizado", "Pedido guardado"},
     estado |-> pedidos'[pk].estado,
     tracking |-> pedidos'[pk].tracking_number,
     stock |-> stock',
     logs |-> Entradas(Anexados(pk))]

\* C35: the two update paths of an existing order agree. For every state of
\* the order and every requested status and tracking number, what
\* admin_order_detail does is what PedidoAdmin's change form would have
\* done with the same request, and conversely: the same requests are
\* accepted, and an accepted one leaves the same status, tracking number and
\* stocks and appends the same set of entries.
C35_CaminosCoinciden ==
    [][\A pk \in DOMAIN pedidos, e \in EstadosPost \ {Ausente}, t \in TrackingsPost :
          /\ admin_order_detail(pk, e, t) => SalidaDelPaso(pk) = SalidaAdmin(pk, e, t)
          /\ save_model_change(pk, e, t) => SalidaDelPaso(pk) = SalidaPanel(pk, e, t)]_vars

====
